---- MODULE Spec2Model ----
(***************************************************************************)
(* A model of the webpub viewer's pagination, manifest navigation and     *)
(* settings components:                                                   *)
(*   - ColumnsPaginator (src/src/ColumnsPaginator.ts, lines 3-74),        *)
(*   - Manifest         (src/src/ColumnsPaginator.ts, lines 90-142),      *)
(*   - BookSettings     (src/unnamed/part_000).                           *)
(* The three components share no state; each has a specification of its   *)
(* own (SpecPaginator, SpecManifest, SpecSettings) that leaves the other  *)
(* components' variables alone.  SpecCaller runs the paginator under a    *)
(* caller that asks onFirstPage()/onLastPage() before it steps, and       *)
(* SpecTraversal runs the manifest under a reader that walks the spine.   *)
(***************************************************************************)
EXTENDS Integers, Sequences, FiniteSets, TLC

VARIABLES
    \* ColumnsPaginator
    iframe,        \* this.iframe: "undefined" before the first start(), "set" after
    left,          \* iframe.contentDocument.body.style.left, a string (sequence of characters)
    offsetWidth,   \* body.offsetWidth, the viewport width measured by the browser
    scrollWidth,   \* body.scrollWidth, the content width measured by the browser
    paged,         \* the last call made on the paginator: what it found and what it wrote
    \* Manifest
    manifestJSON,  \* the spine field of the manifest source the constructor was given
    spine,         \* this.spine: the sequence of links
    result,        \* the last call made on the manifest and what it returned
    visited,       \* the links a traversal of the spine has been given so far, in order
    \* BookSettings
    phase,         \* "new" before create(), "created" after it, "rendered" after renderControls()
    store,         \* the key-value store: the value held under each of the two keys
    pending,       \* the store.set calls issued and not yet completed, in the order issued
    bookViews,     \* this.bookViews: the views, each known by its name
    fontSizes,     \* this.fontSizes: the font-size strings
    selectedView,  \* this.selectedView
    selectedFontSize,       \* this.selectedFontSize
    viewChangeCallback,     \* whether onViewChange() has registered a callback
    fontSizeChangeCallback, \* whether onFontSizeChange() has registered a callback
    viewLinks,     \* this.viewLinks: for each view with a link, whether its class is "<name> active"
    fontSizeLinks, \* this.fontSizeLinks: for "decrease" and "increase", whether the class is "... disabled"
    started,       \* the views on which start() was called and stop() was not called since
    starting,      \* the views whose last start() returned a promise that has not resolved
    last           \* the last of create() and the click handlers to run: its input, the state it found, the calls it made

pagVars == <<iframe, left, offsetWidth, scrollWidth, paged>>
manVars == <<manifestJSON, spine, result, visited>>
setVars == <<phase, store, pending, bookViews, fontSizes, selectedView, selectedFontSize,
             viewChangeCallback, fontSizeChangeCallback, viewLinks, fontSizeLinks,
             started, starting, last>>
vars == <<pagVars, manVars, setVars>>

(***************************************************************************)
(* Bounds of the model.                                                   *)
(***************************************************************************)
MaxWidth == 3        \* viewport widths are 1..MaxWidth
MaxExtra == 4        \* scrollWidth - offsetWidth is in 0..MaxExtra
MaxPosition == 12    \* paging is cut off once |position| would exceed this
MaxSpine == 3        \* a spine holds at most MaxSpine links
MaxViews == 2        \* create() is given 1..MaxViews views
MaxPixel == 2        \* font sizes in pixels are in 0..MaxPixel
MaxPending == 2      \* at most MaxPending store writes are in flight

(***************************************************************************)
(* Strings are sequences of one-character strings.                        *)
(***************************************************************************)
DigitChars == <<"0", "1", "2", "3", "4", "5", "6", "7", "8", "9">>

RECURSIVE NatToString(_)
\* String(n) for a natural number n: its decimal digits.
NatToString(n) ==
    IF n < 10 THEN <<DigitChars[n + 1]>>
    ELSE NatToString(n \div 10) \o <<DigitChars[(n % 10) + 1]>>

\* String(n) for an integer n. String(-0) is "0".
NumberToString(n) == IF n < 0 THEN <<"-">> \o NatToString(-n) ELSE NatToString(n)

DigitValue(c) == CHOOSE d \in 0..9 : DigitChars[d + 1] = c

IsDigits(s) == Len(s) > 0 /\ \A i \in 1..Len(s) : \E d \in 0..9 : DigitChars[d + 1] = s[i]

RECURSIVE DigitsToNat(_)
DigitsToNat(s) ==
    IF Len(s) = 0 THEN 0
    ELSE 10 * DigitsToNat(SubSeq(s, 1, Len(s) - 1)) + DigitValue(s[Len(s)])

NaN == "NaN"

\* Whether Number(s) is a number rather than NaN: "" or an optionally signed
\* run of digits.
IsNumeric(s) ==
    \/ Len(s) = 0
    \/ IsDigits(s)
    \/ Len(s) > 1 /\ s[1] = "-" /\ IsDigits(Tail(s))

\* Number(s), the numeric conversion that unary minus applies to a string:
\* "" is 0, an optionally signed run of digits is its value, anything else NaN.
StringToNumber(s) ==
    IF ~IsNumeric(s) THEN NaN
    ELSE IF Len(s) = 0 THEN 0
    ELSE IF s[1] = "-" THEN -DigitsToNat(Tail(s))
    ELSE DigitsToNat(s)

\* s.slice(0, -2): s without its last two characters.
SliceOffUnit(s) == IF Len(s) <= 2 THEN <<>> ELSE SubSeq(s, 1, Len(s) - 2)

\* Variant: the sign is dropped when the offset is written.
MutEncodeLeft(newPosition) == NumberToString(newPosition) \o <<"p", "x">>

\* -newPosition + "px"
EncodeLeft(newPosition) == NumberToString(-newPosition) \o <<"p", "x">>

\* -(body.style.left as any).slice(0, -2)
DecodeLeft(s) ==
    LET digits == SliceOffUnit(s)
    IN IF IsNumeric(digits) THEN -StringToNumber(digits) ELSE NaN

\* The position the paginator reads back from the body's style.
Position == DecodeLeft(left)

(***************************************************************************)
(* ColumnsPaginator                                                       *)
(***************************************************************************)
\* A record of one call on the paginator: op names it, goingToLastPage is
\* start()'s argument, position is what the left style decoded to when the
\* call was made, newPosition is the position whose encoding the call wrote.
Paged(op, goingToLastPage, newPosition) ==
    [op |-> op, goingToLastPage |-> goingToLastPage, position |-> Position,
     newPosition |-> newPosition]

NoPaging == [op |-> "none", goingToLastPage |-> FALSE, position |-> 0, newPosition |-> 0]

InitPaginator ==
    /\ iframe = "undefined"
    /\ left = <<>>
    /\ offsetWidth \in 1..MaxWidth
    /\ scrollWidth \in {offsetWidth + e : e \in 0..MaxExtra}
    /\ paged = NoPaging

\* Variant: the offset is written only when going to the last page.
MutStart(goingToLastPage) ==
    /\ iframe' = "set"
    /\ left' = IF goingToLastPage
               THEN EncodeLeft(scrollWidth - offsetWidth)
               ELSE IF left = <<>> THEN <<"0", "p", "x">> ELSE left
    /\ paged' = Paged("start", goingToLastPage,
                      IF goingToLastPage THEN scrollWidth - offsetWidth ELSE 0)
    /\ UNCHANGED <<offsetWidth, scrollWidth>>

\* start(iframe, goingToLastPage)
Start(goingToLastPage) ==
    /\ iframe' = "set"
    /\ left' = IF goingToLastPage
               THEN LET width == offsetWidth
                        newPosition == scrollWidth - width
                    IN EncodeLeft(newPosition)
               ELSE <<"0", "p", "x">>
    /\ paged' = Paged("start", goingToLastPage,
                      IF goingToLastPage THEN scrollWidth - offsetWidth ELSE 0)
    /\ UNCHANGED <<offsetWidth, scrollWidth>>

\* onFirstPage()
OnFirstPage == offsetWidth > Position

\* onLastPage()
OnLastPage == offsetWidth >= scrollWidth

\* goToPreviousPage()
GoToPreviousPage ==
    /\ iframe = "set"
    /\ LET position == Position
           width == offsetWidth
           newPosition == position - width
       IN /\ newPosition >= -MaxPosition
          /\ left' = EncodeLeft(newPosition)
          /\ paged' = Paged("goToPreviousPage", FALSE, newPosition)
    /\ UNCHANGED <<iframe, offsetWidth, scrollWidth>>

\* Variant: the new position is clamped to the last page.
MutGoToNextPage ==
    /\ iframe = "set"
    /\ LET position == Position
           width == offsetWidth
           lastPosition == scrollWidth - width
           newPosition == IF position + width > lastPosition /\ position <= lastPosition
                          THEN lastPosition ELSE position + width
       IN /\ newPosition <= MaxPosition
          /\ left' = EncodeLeft(newPosition)
          /\ paged' = Paged("goToNextPage", FALSE, newPosition)
    /\ UNCHANGED <<iframe, offsetWidth, scrollWidth>>

\* goToNextPage()
GoToNextPage ==
    /\ iframe = "set"
    /\ LET position == Position
           width == offsetWidth
           newPosition == position + width
       IN /\ newPosition <= MaxPosition
          /\ left' = EncodeLeft(newPosition)
          /\ paged' = Paged("goToNextPage", FALSE, newPosition)
    /\ UNCHANGED <<iframe, offsetWidth, scrollWidth>>

StartFirst == Start(FALSE)
StartLast == Start(TRUE)

NextPaginator ==
    \/ StartFirst /\ UNCHANGED <<manVars, setVars>>
    \/ StartLast /\ UNCHANGED <<manVars, setVars>>
    \/ GoToPreviousPage /\ UNCHANGED <<manVars, setVars>>
    \/ GoToNextPage /\ UNCHANGED <<manVars, setVars>>

(***************************************************************************)
(* Manifest                                                               *)
(*                                                                        *)
(* A URL string is a sequence of segments.  An absolute URL starts with   *)
(* the segment Origin (scheme and host); a relative reference does not.   *)
(* A link is a record: hasHref tells whether the href field is present,   *)
(* href is its string (<<>> is the empty string "").  A link is known by  *)
(* its place in the spine (two links with equal fields are two objects),  *)
(* so an operation that returns a link returns its 0-based index, and     *)
(* Null for null.                                                         *)
(***************************************************************************)
Origin == "http://host"
Chapters == {"c1", "c2", "c3"}

\* this.manifestUrl.href
manifestUrl == <<Origin, "d", "manifest.json">>

\* The hrefs a manifest source gives a link: "c.html", "./../d/c.html" and
\* "http://host/d/c.html" for each chapter c, and the empty string.  All of
\* them are references that new URL() resolves; it throws on a malformed one.
RawHrefs ==
    {<<c>> : c \in Chapters}
        \cup {<<".", "..", "d", c>> : c \in Chapters}
        \cup {<<Origin, "d", c>> : c \in Chapters}
        \cup {<<>>}

Links ==
    {[hasHref |-> TRUE, href |-> h] : h \in RawHrefs}
        \cup {[hasHref |-> FALSE, href |-> <<>>]}

\* The hrefs callers look up: the resolved href of each chapter, an absolute
\* href outside the book, and a reference the caller did not resolve.
LookupHrefs ==
    {<<Origin, "d", c>> : c \in Chapters}
        \cup {<<Origin, "e", "c1">>, <<"c1">>}

Null == -1

RECURSIVE RemoveDotSegments(_, _)
\* The URL standard's path normalisation: "." is dropped, ".." drops the
\* segment before it (and nothing at the root).
RemoveDotSegments(done, rest) ==
    IF Len(rest) = 0 THEN done
    ELSE IF Head(rest) = "." THEN RemoveDotSegments(done, Tail(rest))
    ELSE IF Head(rest) = ".."
        THEN RemoveDotSegments(IF Len(done) = 0 THEN done
                               ELSE SubSeq(done, 1, Len(done) - 1), Tail(rest))
    ELSE RemoveDotSegments(Append(done, Head(rest)), Tail(rest))

\* new URL(href, base).href
ResolveUrl(href, base) ==
    IF Len(href) > 0 /\ Head(href) = Origin
    THEN <<Origin>> \o RemoveDotSegments(<<>>, Tail(href))
    ELSE <<Head(base)>>
            \o RemoveDotSegments(<<>>, SubSeq(base, 2, Len(base) - 1) \o href)

\* if (item.href): the field is present and not the empty string.
HasHref(item) == item.hasHref /\ item.href # <<>>

RECURSIVE SpineIndexFrom(_, _)
\* The loop of getSpineIndex from `index` on.
SpineIndexFrom(href, index) ==
    IF ~(index < Len(spine)) THEN Null
    ELSE LET item == spine[index + 1]
         IN IF HasHref(item) /\ ResolveUrl(item.href, manifestUrl) = href
            THEN index
            ELSE SpineIndexFrom(href, index + 1)

RECURSIVE LastSpineIndexFrom(_, _)
\* The same scan run from the end of the spine: the last match.
LastSpineIndexFrom(href, index) ==
    IF index < 0 THEN Null
    ELSE LET item == spine[index + 1]
         IN IF HasHref(item) /\ ResolveUrl(item.href, manifestUrl) = href
            THEN index
            ELSE LastSpineIndexFrom(href, index - 1)

\* Variant: the last matching index instead of the first.
MutSpineIndex(href) == LastSpineIndexFrom(href, Len(spine) - 1)

\* getSpineIndex(href)
getSpineIndex(href) == SpineIndexFrom(href, 0)

\* What getPreviousSpineItem(href) returns.
PreviousSpineItem(href) ==
    LET index == getSpineIndex(href)
    IN IF index # Null /\ index > 0 THEN index - 1 ELSE Null

\* Variant: the index is not tested against null.
MutNextSpineItem(href) ==
    LET index == getSpineIndex(href)
    IN IF index < Len(spine) - 1 THEN index + 1 ELSE Null

\* Variant: the bound is one index short.
MutNextSpineItemBound(href) ==
    LET index == getSpineIndex(href)
    IN IF index # Null /\ index < Len(spine) - 2 THEN index + 1 ELSE Null

\* What getNextSpineItem(href) returns.
NextSpineItem(href) ==
    LET index == getSpineIndex(href)
    IN IF index # Null /\ index < Len(spine) - 1 THEN index + 1 ELSE Null

NoCall == [op |-> "none", href |-> <<>>, item |-> Null]

\* The spine field of a manifest source: left out, null, or an array of links.
SpineFields ==
    {[kind |-> "undefined", items |-> <<>>], [kind |-> "null", items |-> <<>>]}
        \cup {[kind |-> "array", items |-> items] :
                  items \in UNION {[1..n -> Links] : n \in 0..MaxSpine}}

\* manifestJSON.spine || []: an array, even an empty one, is truthy.
SpineOrEmpty(field) == IF field.kind = "array" THEN field.items ELSE <<>>

\* Variant: the last link instead of the first.
MutStartLink == IF Len(spine) > 0 THEN Len(spine) - 1 ELSE Null

\* What getStartLink() returns.
StartLink == IF Len(spine) > 0 THEN 0 ELSE Null

\* new Manifest(manifestJSON, manifestUrl)
InitManifest ==
    /\ manifestJSON \in SpineFields
    /\ spine = SpineOrEmpty(manifestJSON)
    /\ result = NoCall
    /\ visited = <<>>

getStartLink ==
    /\ result' = [op |-> "getStartLink", href |-> <<>>, item |-> StartLink]
    /\ UNCHANGED <<manifestJSON, spine, visited>>

getPreviousSpineItem ==
    /\ \E href \in LookupHrefs :
          result' = [op |-> "getPreviousSpineItem", href |-> href,
                     item |-> PreviousSpineItem(href)]
    /\ UNCHANGED <<manifestJSON, spine, visited>>

getNextSpineItem ==
    /\ \E href \in LookupHrefs :
          result' = [op |-> "getNextSpineItem", href |-> href,
                     item |-> NextSpineItem(href)]
    /\ UNCHANGED <<manifestJSON, spine, visited>>

NextManifest ==
    \/ getStartLink /\ UNCHANGED <<pagVars, setVars>>
    \/ getPreviousSpineItem /\ UNCHANGED <<pagVars, setVars>>
    \/ getNextSpineItem /\ UNCHANGED <<pagVars, setVars>>

IdleManifest ==
    /\ manifestJSON = [kind |-> "array", items |-> <<>>]
    /\ spine = <<>>
    /\ result = NoCall
    /\ visited = <<>>

IdlePaginator ==
    /\ iframe = "undefined"
    /\ left = <<>>
    /\ offsetWidth = 1
    /\ scrollWidth = 1
    /\ paged = NoPaging

(***************************************************************************)
(* BookSettings                                                           *)
(*                                                                        *)
(* A string value (a view's name, a font size such as "16px", a value of  *)
(* the store) is a pair <<kind, n>>: <<"view", i>> is the name of the     *)
(* i-th view, <<"px", n>> the string n + "px", <<"", 0>> the empty        *)
(* string.  null and undefined are pairs of their own.  Views have        *)
(* distinct, non-empty names (renderControls uses a name as the class of  *)
(* the view's link), so a view is known by its name.                      *)
(***************************************************************************)
SELECTED_VIEW_KEY == "settings-selected-view"
SELECTED_FONT_SIZE_KEY == "settings-selected-font-size"

StoreKeys == {SELECTED_VIEW_KEY, SELECTED_FONT_SIZE_KEY}

Undefined == <<"undefined", 0>>
NoValue == <<"null", 0>>
EmptyString == <<"", 0>>

\* if (value): null, undefined and "" are falsy.
Truthy(value) == value \notin {Undefined, NoValue, EmptyString}

ViewName(i) == <<"view", i>>

\* fontSize + "px"
ToPx(fontSize) == <<"px", fontSize>>

\* The bookViews argument of create(): n views.
ViewLists == {[i \in 1..n |-> ViewName(i)] : n \in 1..MaxViews}

\* The fontSizesInPixels argument of create(): sizes sorted from smallest to
\* largest, as the parameter's comment asks.
SizeLists ==
    {sizes \in UNION {[1..n -> 0..MaxPixel] : n \in 1..(MaxPixel + 1)} :
        \A i, j \in DOMAIN sizes : i < j => sizes[i] < sizes[j]}

\* The defaultFontSizeInPixels argument of create(): a number, or left out.
Defaults == {Undefined} \cup {<<"number", n>> : n \in 0..MaxPixel}

\* What the store may hold under the two keys when create() reads them.
StoredViewNames == {NoValue, EmptyString} \cup {ViewName(i) : i \in 1..(MaxViews + 1)}
StoredFontSizes == {NoValue} \cup {ToPx(n) : n \in 0..MaxPixel}

\* What a view's getCurrentPosition() may return.
Positions == {0, 1}

\* array.indexOf(x): the 0-based index of the first element equal to x, or -1.
IndexOf(array, x) ==
    IF \E i \in DOMAIN array : array[i] = x
    THEN (CHOOSE i \in DOMAIN array : array[i] = x /\ \A j \in 1..(i - 1) : array[j] # x) - 1
    ELSE -1

\* array[index], for a 0-based index.
At(array, index) == array[index + 1]

\* A record of one run of create() or of a click handler: op names it, input
\* is the default font size create() was given or the view whose link was
\* clicked, view, fontSize and started are the selections and the started
\* views it found, registered tells whether the callback it would invoke was
\* registered, calls are the calls it made on its collaborators, in order,
\* disabled is the class of the font-size links it found, written are the
\* keys that it and the handlers before it have called store.set for.
Ran(op, input, registered, calls) ==
    [op |-> op, input |-> input, view |-> selectedView, fontSize |-> selectedFontSize,
     started |-> started, registered |-> registered, calls |-> calls,
     disabled |-> fontSizeLinks,
     written |-> last.written \cup {calls[i].target[1] :
                                       i \in {j \in DOMAIN calls : calls[j].fn = "store.set"}}]

NoClick == [op |-> "none", input |-> Undefined, view |-> Undefined,
            fontSize |-> Undefined, started |-> {}, registered |-> FALSE,
            calls |-> <<>>, disabled |-> <<>>, written |-> {}]

Call(fn, target, arg) == [fn |-> fn, target |-> target, arg |-> arg]

InitSettings ==
    /\ phase = "new"
    /\ store \in {[key \in StoreKeys |->
                        IF key = SELECTED_VIEW_KEY THEN name ELSE size] :
                    name \in StoredViewNames, size \in StoredFontSizes}
    /\ pending = <<>>
    /\ bookViews = <<>>
    /\ fontSizes = <<>>
    /\ selectedView = Undefined
    /\ selectedFontSize = Undefined
    /\ viewChangeCallback = FALSE
    /\ fontSizeChangeCallback = FALSE
    /\ viewLinks = <<>>
    /\ fontSizeLinks = <<>>
    /\ started = {}
    /\ starting = {}
    /\ last = NoClick

\* Variant: the stored name is ignored.
MutInitialView(views, selectedViewName) ==
    IF Len(views) >= 1 THEN views[1] ELSE Undefined

\* The view part of initializeSelections: the selected view, given the views
\* and the name the store holds.
InitialView(views, selectedViewName) ==
    IF Len(views) >= 1
    THEN IF Truthy(selectedViewName) /\ IndexOf(views, selectedViewName) # -1
         THEN At(views, IndexOf(views, selectedViewName))
         ELSE views[1]
    ELSE Undefined

\* Variant: the stored size and the default are not tested for being options.
MutInitialFontSize(sizes, storedFontSize, defaultFontSize) ==
    IF Truthy(storedFontSize) THEN storedFontSize
    ELSE IF Truthy(defaultFontSize) THEN defaultFontSize
    ELSE At(sizes, Len(sizes) \div 2)

\* The font-size part of initializeSelections: the selected font size, given
\* the font sizes, the size the store holds and the default passed in.
InitialFontSize(sizes, storedFontSize, defaultFontSize) ==
    IF Len(sizes) >= 1
    THEN LET storedIsAvailable ==
                 Truthy(storedFontSize) /\ IndexOf(sizes, storedFontSize) # -1
             useDefault ==
                 (~Truthy(storedFontSize) \/ ~storedIsAvailable) /\ Truthy(defaultFontSize)
             selected == IF useDefault THEN defaultFontSize ELSE storedFontSize
             selectedIsAvailable ==
                 IF useDefault
                 THEN Truthy(selected) /\ IndexOf(sizes, selected) # -1
                 ELSE storedIsAvailable
         IN IF ~Truthy(selected) \/ ~selectedIsAvailable
            THEN LET averageFontSizeIndex == Len(sizes) \div 2
                 IN At(sizes, averageFontSizeIndex)
            ELSE selected
    ELSE Undefined

\* defaultFontSizeInPixels ? defaultFontSizeInPixels + "px" : undefined
DefaultFontSize(defaultFontSizeInPixels) ==
    IF defaultFontSizeInPixels # Undefined /\ defaultFontSizeInPixels[2] # 0
    THEN ToPx(defaultFontSizeInPixels[2])
    ELSE Undefined

\* BookSettings.create(store, bookViews, fontSizesInPixels, defaultFontSizeInPixels)
Create(views, fontSizesInPixels, defaultFontSizeInPixels) ==
    /\ phase = "new"
    /\ phase' = "created"
    /\ bookViews' = views
    /\ fontSizes' = [i \in DOMAIN fontSizesInPixels |-> ToPx(fontSizesInPixels[i])]
    /\ selectedView' = InitialView(views, store[SELECTED_VIEW_KEY])
    /\ selectedFontSize' = InitialFontSize(fontSizes', store[SELECTED_FONT_SIZE_KEY],
                                           DefaultFontSize(defaultFontSizeInPixels))
    /\ last' = Ran("create", defaultFontSizeInPixels, FALSE,
                    <<Call("store.get", <<SELECTED_VIEW_KEY, 0>>, store[SELECTED_VIEW_KEY]),
                      Call("store.get", <<SELECTED_FONT_SIZE_KEY, 0>>,
                           store[SELECTED_FONT_SIZE_KEY])>>)
    /\ UNCHANGED <<store, pending, viewChangeCallback, fontSizeChangeCallback,
                   viewLinks, fontSizeLinks, started, starting>>

\* updateViewLinks(): the class of each view's link, given the selected view.
UpdatedViewLinks(selected) == [name \in DOMAIN viewLinks |-> name = selected]

\* Variant: "increase" is compared with the length, not with the last index.
MutUpdatedFontSizeLinks(selected) ==
    LET currentFontSizeIndex == IndexOf(fontSizes, selected)
    IN [name \in {"decrease", "increase"} |->
           IF name = "decrease" THEN currentFontSizeIndex = 0
           ELSE currentFontSizeIndex = Len(fontSizes)]

\* updateFontSizeLinks(): the class of the two font-size links, given the
\* selected font size.
UpdatedFontSizeLinks(selected) ==
    LET currentFontSizeIndex == IndexOf(fontSizes, selected)
    IN [name \in {"decrease", "increase"} |->
           IF name = "decrease" THEN currentFontSizeIndex = 0
           ELSE currentFontSizeIndex = Len(fontSizes) - 1]

\* renderControls(element)
RenderControls ==
    /\ phase = "created"
    /\ phase' = "rendered"
    /\ viewLinks' = IF Len(bookViews) > 1
                    THEN [name \in {bookViews[i] : i \in DOMAIN bookViews} |->
                             name = selectedView]
                    ELSE <<>>
    /\ fontSizeLinks' = IF Len(fontSizes) > 1
                        THEN UpdatedFontSizeLinks(selectedFontSize)
                        ELSE <<>>
    /\ UNCHANGED <<store, pending, bookViews, fontSizes, selectedView, selectedFontSize,
                   viewChangeCallback, fontSizeChangeCallback, started, starting, last>>

\* onViewChange(callback)
OnViewChange ==
    /\ phase # "new"
    /\ ~viewChangeCallback
    /\ viewChangeCallback' = TRUE
    /\ UNCHANGED <<phase, store, pending, bookViews, fontSizes, selectedView,
                   selectedFontSize, fontSizeChangeCallback, viewLinks, fontSizeLinks,
                   started, starting, last>>

\* onFontSizeChange(callback)
OnFontSizeChange ==
    /\ phase # "new"
    /\ ~fontSizeChangeCallback
    /\ fontSizeChangeCallback' = TRUE
    /\ UNCHANGED <<phase, store, pending, bookViews, fontSizes, selectedView,
                   selectedFontSize, viewChangeCallback, viewLinks, fontSizeLinks,
                   started, starting, last>>

\* Variant: the clicked view is started at position 0.
MutViewClickCalls(view, position) ==
    <<Call("getCurrentPosition", selectedView, <<"position", position>>),
      Call("stop", selectedView, Undefined),
      Call("start", view, <<"position", 0>>),
      Call("store.set", <<SELECTED_VIEW_KEY, 0>>, view)>>
        \o (IF viewChangeCallback
            THEN <<Call("viewChangeCallback", Undefined, Undefined)>> ELSE <<>>)

\* Variant: the clicked view is started before the selected one is stopped.
MutViewClickOrder(view, position) ==
    <<Call("getCurrentPosition", selectedView, <<"position", position>>),
      Call("start", view, <<"position", position>>),
      Call("stop", selectedView, Undefined),
      Call("store.set", <<SELECTED_VIEW_KEY, 0>>, view)>>
        \o (IF viewChangeCallback
            THEN <<Call("viewChangeCallback", Undefined, Undefined)>> ELSE <<>>)

\* The calls the view click handler makes, in order: position is what
\* getCurrentPosition() returned on the selected view.
ViewClickCalls(view, position) ==
    <<Call("getCurrentPosition", selectedView, <<"position", position>>),
      Call("stop", selectedView, Undefined),
      Call("start", view, <<"position", position>>),
      Call("store.set", <<SELECTED_VIEW_KEY, 0>>, view)>>
        \o (IF viewChangeCallback
            THEN <<Call("viewChangeCallback", Undefined, Undefined)>> ELSE <<>>)

RECURSIVE StartedAfter(_, _)
\* The views started and not stopped once the calls have been made in order,
\* given those started and not stopped before.
StartedAfter(before, calls) ==
    IF Len(calls) = 0 THEN before
    ELSE LET call == Head(calls)
         IN StartedAfter(IF call.fn = "stop" THEN before \ {call.target}
                         ELSE IF call.fn = "start" THEN before \cup {call.target}
                         ELSE before,
                         Tail(calls))

\* The click listener of a view's link (setupEvents).
ViewClick(view) ==
    /\ phase = "rendered"
    /\ view \in DOMAIN viewLinks
    /\ Len(pending) < MaxPending
    /\ \E position \in Positions :
         LET calls == ViewClickCalls(view, position)
         IN /\ started' = StartedAfter(started, calls)
            /\ last' = Ran("view", view, viewChangeCallback, calls)
    /\ starting' = starting \cup {view}
    /\ selectedView' = view
    /\ viewLinks' = UpdatedViewLinks(view)
    /\ pending' = Append(pending, [key |-> SELECTED_VIEW_KEY, value |-> view])
    /\ UNCHANGED <<phase, store, bookViews, fontSizes, selectedFontSize,
                   viewChangeCallback, fontSizeChangeCallback, fontSizeLinks>>

\* The calls a font-size click handler makes when it changes the selection.
FontSizeClickCalls(newFontSize) ==
    (IF fontSizeChangeCallback
     THEN <<Call("fontSizeChangeCallback", Undefined, Undefined)>> ELSE <<>>)
        \o <<Call("store.set", <<SELECTED_FONT_SIZE_KEY, 0>>, newFontSize)>>

\* Variant: the handler stores the selection whether or not it moved.
MutFontSizeClick(op, moves, newIndex) ==
    /\ phase = "rendered"
    /\ op \in DOMAIN fontSizeLinks
    /\ Len(pending) < MaxPending
    /\ LET newFontSize == IF moves THEN At(fontSizes, newIndex) ELSE selectedFontSize
       IN /\ selectedFontSize' = newFontSize
          /\ fontSizeLinks' = UpdatedFontSizeLinks(newFontSize)
          /\ pending' = Append(pending, [key |-> SELECTED_FONT_SIZE_KEY,
                                         value |-> newFontSize])
          /\ last' = Ran(op, Undefined, fontSizeChangeCallback,
                         FontSizeClickCalls(newFontSize))
    /\ UNCHANGED <<phase, store, bookViews, fontSizes, selectedView, viewChangeCallback,
                   fontSizeChangeCallback, viewLinks, started, starting>>

\* The body shared by the two font-size click listeners: the selection moves
\* to newIndex when `moves` holds, and nothing happens otherwise.
FontSizeClick(op, moves, newIndex) ==
    /\ phase = "rendered"
    /\ op \in DOMAIN fontSizeLinks
    /\ IF moves
       THEN LET newFontSize == At(fontSizes, newIndex)
            IN /\ Len(pending) < MaxPending
               /\ selectedFontSize' = newFontSize
               /\ fontSizeLinks' = UpdatedFontSizeLinks(newFontSize)
               /\ pending' = Append(pending, [key |-> SELECTED_FONT_SIZE_KEY,
                                              value |-> newFontSize])
               /\ last' = Ran(op, Undefined, fontSizeChangeCallback,
                              FontSizeClickCalls(newFontSize))
       ELSE /\ last' = Ran(op, Undefined, fontSizeChangeCallback, <<>>)
            /\ UNCHANGED <<selectedFontSize, fontSizeLinks, pending>>
    /\ UNCHANGED <<phase, store, bookViews, fontSizes, selectedView, viewChangeCallback,
                   fontSizeChangeCallback, viewLinks, started, starting>>

\* Variant: "decrease" stops one index early.
MutDecreaseClick ==
    LET currentFontSizeIndex == IndexOf(fontSizes, selectedFontSize)
    IN FontSizeClick("decrease", currentFontSizeIndex > 1, currentFontSizeIndex - 1)

\* The click listener of the "decrease" link (setupEvents).
DecreaseClick ==
    LET currentFontSizeIndex == IndexOf(fontSizes, selectedFontSize)
    IN FontSizeClick("decrease", currentFontSizeIndex > 0, currentFontSizeIndex - 1)

\* The click listener of the "increase" link (setupEvents).
IncreaseClick ==
    LET currentFontSizeIndex == IndexOf(fontSizes, selectedFontSize)
    IN FontSizeClick("increase", currentFontSizeIndex < Len(fontSizes) - 1,
                     currentFontSizeIndex + 1)

\* The store completes one of the writes in flight, whichever it is.
StoreSetCompletes ==
    /\ \E i \in DOMAIN pending :
         /\ store' = [store EXCEPT ![pending[i].key] = pending[i].value]
         /\ pending' = SubSeq(pending, 1, i - 1) \o SubSeq(pending, i + 1, Len(pending))
    /\ UNCHANGED <<phase, bookViews, fontSizes, selectedView, selectedFontSize,
                   viewChangeCallback, fontSizeChangeCallback, viewLinks, fontSizeLinks,
                   started, starting, last>>

\* The promise a view's start() returned resolves.
StartResolves ==
    /\ \E view \in starting : starting' = starting \ {view}
    /\ UNCHANGED <<phase, store, pending, bookViews, fontSizes, selectedView,
                   selectedFontSize, viewChangeCallback, fontSizeChangeCallback,
                   viewLinks, fontSizeLinks, started, last>>

\* create() with the arguments the model draws: any number of views with one
\* font size, one view with any font sizes and any default, and two views
\* with two font sizes.
CreateSettings ==
    /\ phase = "new"
    /\ \/ \E views \in ViewLists : Create(views, <<1>>, Undefined)
       \/ \E sizes \in SizeLists, default \in Defaults :
            Create(<<ViewName(1)>>, sizes, default)
       \/ Create(<<ViewName(1), ViewName(2)>>, <<0, 1>>, Undefined)

ClickView ==
    /\ phase = "rendered"
    /\ \E view \in DOMAIN viewLinks : ViewClick(view)

NextSettings ==
    \/ CreateSettings /\ UNCHANGED <<pagVars, manVars>>
    \/ RenderControls /\ UNCHANGED <<pagVars, manVars>>
    \/ OnViewChange /\ UNCHANGED <<pagVars, manVars>>
    \/ OnFontSizeChange /\ UNCHANGED <<pagVars, manVars>>
    \/ ClickView /\ UNCHANGED <<pagVars, manVars>>
    \/ DecreaseClick /\ UNCHANGED <<pagVars, manVars>>
    \/ IncreaseClick /\ UNCHANGED <<pagVars, manVars>>
    \/ StoreSetCompletes /\ UNCHANGED <<pagVars, manVars>>
    \/ StartResolves /\ UNCHANGED <<pagVars, manVars>>

IdleSettings ==
    /\ phase = "new"
    /\ store = [key \in StoreKeys |-> NoValue]
    /\ pending = <<>>
    /\ bookViews = <<>>
    /\ fontSizes = <<>>
    /\ selectedView = Undefined
    /\ selectedFontSize = Undefined
    /\ viewChangeCallback = FALSE
    /\ fontSizeChangeCallback = FALSE
    /\ viewLinks = <<>>
    /\ fontSizeLinks = <<>>
    /\ started = {}
    /\ starting = {}
    /\ last = NoClick

InitSettingsOnly == IdlePaginator /\ IdleManifest /\ InitSettings

SpecSettings == InitSettingsOnly /\ [][NextSettings]_vars

InitPaginatorOnly == InitPaginator /\ IdleManifest /\ IdleSettings

InitManifestOnly == IdlePaginator /\ InitManifest /\ IdleSettings

SpecPaginator == InitPaginatorOnly /\ [][NextPaginator]_vars

(***************************************************************************)
(* A caller of the paginator that starts at the first page of content     *)
(* whose scrollWidth is a multiple of the viewport width, and asks        *)
(* onLastPage() before each goToNextPage() and onFirstPage() before each  *)
(* goToPreviousPage().                                                    *)
(***************************************************************************)
InitCaller ==
    /\ InitPaginator
    /\ scrollWidth % offsetWidth = 0

CallerStart ==
    /\ iframe = "undefined"
    /\ Start(FALSE)

CallerNextPage ==
    /\ iframe = "set"
    /\ ~OnLastPage
    /\ GoToNextPage

CallerPreviousPage ==
    /\ iframe = "set"
    /\ ~OnFirstPage
    /\ GoToPreviousPage

NextCaller ==
    \/ CallerStart /\ UNCHANGED <<manVars, setVars>>
    \/ CallerNextPage /\ UNCHANGED <<manVars, setVars>>
    \/ CallerPreviousPage /\ UNCHANGED <<manVars, setVars>>

InitCallerOnly == InitCaller /\ IdleManifest /\ IdleSettings

SpecCaller == InitCallerOnly /\ [][NextCaller]_vars

\* The caller keeps stepping forward while onLastPage() is false.
SpecCallerForward ==
    /\ SpecCaller
    /\ WF_vars(CallerStart /\ UNCHANGED <<manVars, setVars>>)
    /\ WF_vars(CallerNextPage /\ UNCHANGED <<manVars, setVars>>)

SpecManifest == InitManifestOnly /\ [][NextManifest]_vars

(***************************************************************************)
(* A reader of the spine: it asks getStartLink() for the first link and   *)
(* then getNextSpineItem() for the link after the one it was last given,  *)
(* which it names by that link's href resolved against the manifest URL,  *)
(* until it is given none.  Of a link without href it resolves the string *)
(* "undefined", as new URL(undefined, base) does.                         *)
(***************************************************************************)
ResolvedHrefOf(index) ==
    LET item == spine[index + 1]
    IN ResolveUrl(IF item.hasHref THEN item.href ELSE <<"undefined">>, manifestUrl)

TraverseStart ==
    /\ visited = <<>>
    /\ result' = [op |-> "getStartLink", href |-> <<>>, item |-> StartLink]
    /\ visited' = <<StartLink>>
    /\ UNCHANGED <<manifestJSON, spine>>

TraverseNext ==
    /\ visited # <<>>
    /\ visited[Len(visited)] # Null
    /\ Len(visited) < MaxSpine + 2
    /\ LET href == ResolvedHrefOf(visited[Len(visited)])
       IN /\ result' = [op |-> "getNextSpineItem", href |-> href,
                        item |-> NextSpineItem(href)]
          /\ visited' = Append(visited, NextSpineItem(href))
    /\ UNCHANGED <<manifestJSON, spine>>

NextTraversal ==
    \/ TraverseStart /\ UNCHANGED <<pagVars, setVars>>
    \/ TraverseNext /\ UNCHANGED <<pagVars, setVars>>

SpecTraversal == InitManifestOnly /\ [][NextTraversal]_vars

(***************************************************************************)
(* C1. Once started, the position is within                               *)
(* 0 .. scrollWidth - viewportWidth and is a multiple of the viewport     *)
(* width, whatever sequence of goToNextPage()/goToPreviousPage() calls    *)
(* follows start().                                                       *)
(***************************************************************************)
PositionInRangeAndAligned ==
    iframe = "set" =>
        /\ 0 <= Position
        /\ Position <= scrollWidth - offsetWidth
        /\ Position % offsetWidth = 0

(***************************************************************************)
(* ColumnsPaginator claims.  The offset is the number of pixels the left  *)
(* style holds: "-3px" is the offset -3.                                  *)
(***************************************************************************)
Offset == StringToNumber(SliceOffUnit(left))

LastPosition == scrollWidth - offsetWidth

(***************************************************************************)
(* C12.  start() leaves the offset at 0 when goingToLastPage is false and *)
(* at -(scrollWidth - viewportWidth) when it is true, for every           *)
(* scrollWidth >= viewportWidth and whatever offset earlier start() and   *)
(* paging calls left.                                                     *)
(***************************************************************************)
StartSetsOffset ==
    paged.op = "start" =>
        Offset = IF paged.goingToLastPage THEN -(scrollWidth - offsetWidth) ELSE 0

\* start() was called for the first page when paging had left the position
\* beyond the last page, in content of more than one page.
StartSetsOffsetWitness ==
    /\ paged.op = "start"
    /\ ~paged.goingToLastPage
    /\ LastPosition > 0
    /\ paged.position > LastPosition
    /\ Offset = 0

(***************************************************************************)
(* C13 as stated.  In every state reached from start() by                 *)
(* goToNextPage()/goToPreviousPage() calls, onFirstPage() returns true if *)
(* and only if the offset is 0.                                           *)
(***************************************************************************)
FirstPageIffOffsetZero ==
    iframe = "set" => (OnFirstPage <=> Offset = 0)

(***************************************************************************)
(* C14 as stated.  onLastPage() returns true if and only if               *)
(* viewportWidth >= scrollWidth, and it is true when the paginator is at  *)
(* the final column, the offset being -(scrollWidth - viewportWidth), as  *)
(* after start() with goingToLastPage true.                               *)
(***************************************************************************)
LastPageAtFinalColumn ==
    iframe = "set" =>
        /\ OnLastPage <=> offsetWidth >= scrollWidth
        /\ Offset = -(scrollWidth - offsetWidth) => OnLastPage

(***************************************************************************)
(* C15.  The offset encoding round-trips: once the paginator has written  *)
(* the left style for a position, reading it back (the last two           *)
(* characters stripped, the rest negated) yields that position, and the   *)
(* string written is the negated position followed by "px"; this holds    *)
(* for every position start(), goToNextPage() and goToPreviousPage()      *)
(* write.                                                                 *)
(***************************************************************************)
OffsetRoundTrips ==
    iframe = "set" =>
        /\ Position = paged.newPosition
        /\ Len(left) > 2
        /\ SubSeq(left, Len(left) - 1, Len(left)) = <<"p", "x">>
        /\ paged.newPosition > 0 => left[1] = "-"

\* goToNextPage() has written a position of two digits and it reads back.
OffsetRoundTripsWitness ==
    /\ paged.op = "goToNextPage"
    /\ paged.newPosition >= 10
    /\ Len(left) = 5
    /\ Position = paged.newPosition

(***************************************************************************)
(* C17.  goToNextPage() increases the position by exactly one viewport    *)
(* width and goToPreviousPage() decreases it by exactly one viewport      *)
(* width, with no bound check: goToNextPage() at the last page gives a    *)
(* position greater than scrollWidth - viewportWidth, goToPreviousPage()  *)
(* at the first page a position below 0.                                  *)
(***************************************************************************)
StepsByOneWidthUnchecked ==
    /\ paged.op = "goToNextPage" =>
          /\ Position = paged.position + offsetWidth
          /\ paged.position = LastPosition => Position > LastPosition
    /\ paged.op = "goToPreviousPage" =>
          /\ Position = paged.position - offsetWidth
          /\ paged.position = 0 => Position < 0

\* goToNextPage() was called on the last page of content of three pages.
StepsByOneWidthUncheckedWitness ==
    /\ paged.op = "goToNextPage"
    /\ scrollWidth = 3 * offsetWidth
    /\ paged.position = LastPosition
    /\ Position = scrollWidth

(***************************************************************************)
(* C18 as stated.  For a caller that calls goToNextPage() only when       *)
(* onLastPage() is false and goToPreviousPage() only when onFirstPage()   *)
(* is false, from start() at the first page of content whose scrollWidth  *)
(* is a multiple of the viewport width, the position never leaves         *)
(* 0 .. scrollWidth - viewportWidth; and stepping forward eventually      *)
(* reaches a state where onLastPage() is true, which is stated next.      *)
(***************************************************************************)
CheckingCallerStaysInRange ==
    iframe = "set" =>
        /\ 0 <= Position
        /\ Position <= LastPosition

\* The second half of C18: a caller that keeps stepping forward reaches a
\* state where onLastPage() is true.
CheckingCallerReachesLastPage == (iframe = "set") ~> OnLastPage

(***************************************************************************)
(* Manifest claims.  The link at 0-based index i resolves to href when it *)
(* has an href whose resolution against the manifest URL is href.         *)
(***************************************************************************)
ItemResolvesTo(i, href) ==
    /\ spine[i + 1].hasHref
    /\ spine[i + 1].href # <<>>
    /\ ResolveUrl(spine[i + 1].href, manifestUrl) = href

IsFirstMatch(i, href) ==
    /\ ItemResolvesTo(i, href)
    /\ \A j \in 0..(i - 1) : ~ItemResolvesTo(j, href)

LastIndex == Len(spine) - 1

(***************************************************************************)
(* C9 as stated.  With the resolved href of the first spine item          *)
(* getPreviousSpineItem returns none, with the resolved href of the last  *)
(* spine item getNextSpineItem returns none, and with an href that        *)
(* resolves to an item at an index i strictly inside the spine they       *)
(* return the items at i-1 and i+1.                                       *)
(***************************************************************************)
NeighboursOfEveryMatch ==
    Len(spine) > 0 =>
        /\ (result.op = "getPreviousSpineItem" /\ ItemResolvesTo(0, result.href))
              => result.item = Null
        /\ (result.op = "getNextSpineItem" /\ ItemResolvesTo(LastIndex, result.href))
              => result.item = Null
        /\ \A i \in 1..(LastIndex - 1) :
              ItemResolvesTo(i, result.href) =>
                  /\ result.op = "getPreviousSpineItem" => result.item = i - 1
                  /\ result.op = "getNextSpineItem" => result.item = i + 1

(***************************************************************************)
(* C9 as amended.  For an href that some spine item resolves to, let i be *)
(* the first index whose item resolves to it: getPreviousSpineItem        *)
(* returns none when i is 0 and the item at i-1 otherwise, and            *)
(* getNextSpineItem returns none when i is the last index and the item at *)
(* i+1 otherwise.                                                         *)
(***************************************************************************)
NeighboursOfFirstMatch ==
    \A i \in 0..LastIndex :
        IsFirstMatch(i, result.href) =>
            /\ result.op = "getPreviousSpineItem"
                  => result.item = (IF i = 0 THEN Null ELSE i - 1)
            /\ result.op = "getNextSpineItem"
                  => result.item = (IF i = LastIndex THEN Null ELSE i + 1)

\* getNextSpineItem has returned the successor of an inner item whose href
\* the last item resolves to as well.
NeighboursOfFirstMatchWitness ==
    /\ result.op = "getNextSpineItem"
    /\ Len(spine) = 3
    /\ IsFirstMatch(1, result.href)
    /\ ItemResolvesTo(2, result.href)
    /\ spine[2].href = <<".", "..", "d", "c2">>
    /\ result.item = 2

StartLinkIsFirst ==
    /\ manifestJSON.kind # "array" => spine = <<>>
    /\ manifestJSON.kind = "array" => spine = manifestJSON.items
    /\ result.op = "getStartLink" =>
          IF manifestJSON.kind = "array" /\ Len(manifestJSON.items) > 0
          THEN result.item = 0
          ELSE result.item = Null

\* getStartLink() has returned the first of three links that differ.
StartLinkIsFirstWitness ==
    /\ result.op = "getStartLink"
    /\ Len(spine) = 3
    /\ spine[1] # spine[2] /\ spine[1] # spine[3]
    /\ result.item = 0

\* getStartLink() has returned none for a source without a spine field.
StartLinkOfAbsentSpine ==
    /\ result.op = "getStartLink"
    /\ manifestJSON.kind = "undefined"
    /\ result.item = Null

(***************************************************************************)
(* The spine in reading order, followed by none: what a traversal that    *)
(* visits every link once, in spine order, is given.                      *)
(***************************************************************************)
ReadingOrder == [i \in 1..(Len(spine) + 1) |-> IF i <= Len(spine) THEN i - 1 ELSE Null]

IsPrefix(s, t) == Len(s) <= Len(t) /\ s = SubSeq(t, 1, Len(s))

Ended == visited # <<>> /\ visited[Len(visited)] = Null

\* Every link has an href, and no two links resolve to the same href.
DistinctHrefs ==
    /\ \A i \in 0..LastIndex : spine[i + 1].hasHref /\ spine[i + 1].href # <<>>
    /\ \A i, j \in 0..LastIndex : i # j => ResolvedHrefOf(i) # ResolvedHrefOf(j)

(***************************************************************************)
(* C19 as stated.  From getStartLink(), calling getNextSpineItem with the *)
(* resolved href of the link last returned visits the links in spine      *)
(* order, each exactly once, and ends with none after the last link, for  *)
(* every spine, also one where two links resolve to the same href or a    *)
(* link has no href.                                                      *)
(***************************************************************************)
TraversalVisitsSpineInOrder ==
    /\ IsPrefix(visited, ReadingOrder)
    /\ Ended => visited = ReadingOrder

(***************************************************************************)
(* C19 as amended.  For a spine whose links all have an href and resolve  *)
(* to pairwise distinct hrefs, the traversal visits the links in spine    *)
(* order, each exactly once, and ends with none after the last link.      *)
(***************************************************************************)
TraversalOfDistinctHrefs ==
    DistinctHrefs =>
        /\ IsPrefix(visited, ReadingOrder)
        /\ Ended => visited = ReadingOrder

\* The traversal of three links, given as a relative, a dotted and an
\* absolute href, has ended.
TraversalOfDistinctHrefsWitness ==
    /\ Len(spine) = 3
    /\ DistinctHrefs
    /\ spine[1].href = <<"c2">>
    /\ spine[2].href = <<".", "..", "d", "c1">>
    /\ spine[3].href = <<Origin, "d", "c3">>
    /\ visited = <<0, 1, 2, Null>>

(***************************************************************************)
(* BookSettings claims.                                                   *)
(***************************************************************************)
Range(array) == {array[i] : i \in DOMAIN array}

\* The calls of the last handler to the function fn.
CallsTo(fn) == {i \in DOMAIN last.calls : last.calls[i].fn = fn}

(***************************************************************************)
(* C2.  Once create() has run with non-empty views and font sizes, the    *)
(* selected view is one of the views and the selected font size is one of *)
(* the font sizes, whatever the store held, whatever default was given    *)
(* and whatever links have been clicked.                                  *)
(***************************************************************************)
SelectionsAreMembers ==
    phase # "new" =>
        /\ selectedView \in Range(bookViews)
        /\ selectedFontSize \in Range(fontSizes)

\* The store still holds a font size that is not an option, and a click has
\* moved the selection down from what create() selected instead of it.
SelectionsAreMembersWitness ==
    /\ phase = "rendered"
    /\ Truthy(store[SELECTED_FONT_SIZE_KEY])
    /\ store[SELECTED_FONT_SIZE_KEY] \notin Range(fontSizes)
    /\ last.op = "decrease"
    /\ last.calls # <<>>
    /\ selectedFontSize \in Range(fontSizes)
    /\ selectedView \in Range(bookViews)

(***************************************************************************)
(* C3.  A click on a view's link passes to the clicked view's start() the *)
(* value that getCurrentPosition() returned on the view selected until    *)
(* then, read before that view's stop().                                  *)
(***************************************************************************)
StartGetsOutgoingPosition ==
    last.op = "view" =>
        \E g \in CallsTo("getCurrentPosition"), p \in CallsTo("stop") :
            /\ CallsTo("getCurrentPosition") = {g}
            /\ last.calls[g].target = last.view
            /\ last.calls[p].target = last.view
            /\ g < p
            /\ \A t \in CallsTo("start") :
                  /\ last.calls[t].target = last.input
                  /\ last.calls[t].arg = last.calls[g].arg
            /\ CallsTo("start") # {}

\* A click has switched views while the outgoing view reported position 1.
StartGetsOutgoingPositionWitness ==
    /\ last.op = "view"
    /\ last.input # last.view
    /\ \E t \in CallsTo("start") : last.calls[t].arg = <<"position", 1>>

(***************************************************************************)
(* C4.  Across view clicks, at most one view is started and not stopped   *)
(* at any time, also between the calls of a click handler: the handler    *)
(* stops the outgoing view before it starts the clicked one, and when it  *)
(* is done the started view is the selected one.  This includes a click   *)
(* on the selected view and a click made while an earlier start() has not *)
(* resolved.                                                              *)
(***************************************************************************)
AtMostOneViewStarted ==
    /\ Cardinality(started) <= 1
    /\ started \subseteq {selectedView}
    /\ last.op = "view" =>
          /\ started = {selectedView}
          /\ selectedView = last.input
          /\ \A k \in 0..Len(last.calls) :
                Cardinality(StartedAfter(last.started, SubSeq(last.calls, 1, k))) <= 1
          /\ \A t \in CallsTo("start") :
                \E p \in CallsTo("stop") : p < t /\ last.calls[p].target = last.view

\* A click has switched from a started view, whose start() has not resolved
\* yet, to another view.
AtMostOneViewStartedWitness ==
    /\ last.op = "view"
    /\ last.started = {last.view}
    /\ last.input # last.view
    /\ last.view \in starting
    /\ started = {last.input}

(***************************************************************************)
(* C5 as stated.  create() selects the persisted font size if it is one   *)
(* of the font sizes, else the default it was given if that is one of the *)
(* font sizes, else the font size at index floor(length / 2).             *)
(***************************************************************************)
FontSizeDefaultingOrder ==
    phase = "created" =>
        LET stored == store[SELECTED_FONT_SIZE_KEY]
            default == last.input
        IN selectedFontSize =
              IF stored \in Range(fontSizes) THEN stored
              ELSE IF default # Undefined /\ ToPx(default[2]) \in Range(fontSizes)
                   THEN ToPx(default[2])
              ELSE fontSizes[(Len(fontSizes) \div 2) + 1]

(***************************************************************************)
(* C6.  A "decrease" click with the selected font size at index 0, and an *)
(* "increase" click with it at the last index, change nothing: the        *)
(* selected font size stays, and the handler neither writes to the store  *)
(* nor invokes the callback.                                              *)
(***************************************************************************)
AtBoundary ==
    \/ last.op = "decrease" /\ IndexOf(fontSizes, last.fontSize) = 0
    \/ last.op = "increase" /\ IndexOf(fontSizes, last.fontSize) = Len(fontSizes) - 1

BoundaryClickIsNoOp ==
    AtBoundary =>
        /\ selectedFontSize = last.fontSize
        /\ CallsTo("store.set") = {}
        /\ CallsTo("fontSizeChangeCallback") = {}
        /\ last.calls = <<>>

\* "increase" was clicked at the last of three font sizes with a callback
\* registered.
BoundaryClickIsNoOpWitness ==
    /\ last.op = "increase"
    /\ Len(fontSizes) = 3
    /\ last.fontSize = fontSizes[3]
    /\ last.registered
    /\ selectedFontSize = fontSizes[3]

(***************************************************************************)
(* C7.  Away from the boundary, an "increase" ("decrease") click selects  *)
(* the font size one index higher (lower), issues exactly one store write *)
(* of that font size under "settings-selected-font-size", and invokes the *)
(* font-size-change callback exactly once if one is registered.           *)
(***************************************************************************)
StepClickMovesOneIndex ==
    (last.op \in {"decrease", "increase"} /\ ~AtBoundary) =>
        LET index == IndexOf(fontSizes, last.fontSize)
            newIndex == IF last.op = "increase" THEN index + 1 ELSE index - 1
        IN /\ selectedFontSize = fontSizes[newIndex + 1]
           /\ Cardinality(CallsTo("store.set")) = 1
           /\ \A i \in CallsTo("store.set") :
                 /\ last.calls[i].target = <<SELECTED_FONT_SIZE_KEY, 0>>
                 /\ last.calls[i].arg = selectedFontSize
           /\ Cardinality(CallsTo("fontSizeChangeCallback")) =
                 (IF last.registered THEN 1 ELSE 0)

\* "decrease" was clicked at index 1 of three font sizes with a callback
\* registered.
StepClickMovesOneIndexWitness ==
    /\ last.op = "decrease"
    /\ Len(fontSizes) = 3
    /\ last.fontSize = fontSizes[2]
    /\ selectedFontSize = fontSizes[1]
    /\ last.registered
    /\ Len(last.calls) = 2

(***************************************************************************)
(* C16.  Once renderControls() has run with more than one font size, and  *)
(* after any "increase"/"decrease" clicks, the "decrease" link is marked  *)
(* disabled exactly when the selected font size is at index 0 and the     *)
(* "increase" link exactly when it is at the last index; and a click on   *)
(* one of the two links changes nothing exactly when the link was marked  *)
(* disabled.                                                              *)
(***************************************************************************)
DisabledMatchesIndex ==
    (phase = "rendered" /\ Len(fontSizes) > 1) =>
        /\ fontSizeLinks["decrease"] <=> IndexOf(fontSizes, selectedFontSize) = 0
        /\ fontSizeLinks["increase"]
              <=> IndexOf(fontSizes, selectedFontSize) = Len(fontSizes) - 1
        /\ last.op \in {"decrease", "increase"} =>
              (last.disabled[last.op]
                  <=> (selectedFontSize = last.fontSize /\ last.calls = <<>>))

\* An "increase" click on an enabled link has moved the selection to the
\* last of three font sizes, and the link is now marked disabled.
DisabledMatchesIndexWitness ==
    /\ phase = "rendered"
    /\ Len(fontSizes) = 3
    /\ last.op = "increase"
    /\ ~last.disabled["increase"]
    /\ selectedFontSize = fontSizes[3]
    /\ fontSizeLinks["increase"]
    /\ ~fontSizeLinks["decrease"]

(***************************************************************************)
(* C20 as stated.  After any view clicks and effective font-size clicks,  *)
(* once every store write issued has completed, the store holds the       *)
(* selected view's name under "settings-selected-view" and the selected   *)
(* font size under "settings-selected-font-size" (for each of the two     *)
(* that a click has written), so that a later create() with the same      *)
(* store, views and font sizes selects them again, whatever default it is *)
(* given; the store may complete the writes of successive clicks in       *)
(* another order than they were issued.                                   *)
(***************************************************************************)
StoreRestoresSelections ==
    (phase = "rendered" /\ pending = <<>>) =>
        /\ SELECTED_VIEW_KEY \in last.written =>
              /\ store[SELECTED_VIEW_KEY] = selectedView
              /\ InitialView(bookViews, store[SELECTED_VIEW_KEY]) = selectedView
        /\ SELECTED_FONT_SIZE_KEY \in last.written =>
              /\ store[SELECTED_FONT_SIZE_KEY] = selectedFontSize
              /\ \A default \in Defaults :
                    InitialFontSize(fontSizes, store[SELECTED_FONT_SIZE_KEY],
                                    DefaultFontSize(default)) = selectedFontSize

(***************************************************************************)
(* C8.  create() selects the view whose name the store holds under        *)
(* "settings-selected-view" when there is such a view, and the first view *)
(* otherwise (nothing stored, or a name that no view has).                *)
(***************************************************************************)
ViewDefaulting ==
    phase = "created" =>
        LET stored == store[SELECTED_VIEW_KEY]
        IN IF \E i \in DOMAIN bookViews : bookViews[i] = stored
           THEN selectedView = stored
           ELSE selectedView = bookViews[1]

\* The store held the second view's name and create() selected that view.
ViewDefaultingWitness ==
    /\ phase = "created"
    /\ Len(bookViews) = 2
    /\ store[SELECTED_VIEW_KEY] = ViewName(2)
    /\ selectedView = bookViews[2]

====
